---- MODULE Spec2Model ----
(***************************************************************************)
(* Model of the deployment harness of wrap-tz-contracts:                   *)
(*   src/src/deploy.py  _metadata_encode, Deploy.run, Deploy.fa2,          *)
(*                      Deploy._deploy_quorum, Deploy._deploy_minter,      *)
(*                      Deploy._set_fa2_admin                              *)
(*   src/src/token.py   class Token                                        *)
(* Deploy._confirm_admin has no action: run never reaches line 46, see     *)
(* SetFa2Admin.                                                            *)
(*                                                                         *)
(* Text is a sequence of Unicode code points, bytes are sequences of       *)
(* 0..255, and a JSON-like document is a tagged record:                    *)
(*   [t |-> "str", v |-> text]   [t |-> "int", v |-> n]                    *)
(*   [t |-> "bool", v |-> b]     [t |-> "null", v |-> <<>>]                *)
(*   [t |-> "list", v |-> <<doc, ...>>]                                    *)
(*   [t |-> "dict", v |-> << <<key text, doc>>, ... >>]  (insertion order) *)
(***************************************************************************)
EXTENDS Integers, Sequences, FiniteSets, TLC

VARIABLES
    pc,         \* position of Deploy.run: the step about to be attempted
    tokens,     \* run's parameter tokens: list of TokenType
    signers,    \* run's parameter signers: dict name -> key
    threshold,  \* run's parameter threshold
    fa2,        \* run's local fa2 (None until line 42 has returned)
    quorum,     \* run's local quorum (None until line 43 has returned)
    minter,     \* run's local minter (None until line 44 has returned)
    chain,      \* originated contracts: address -> storage
    calls,      \* the collaborator calls attempted so far, in order
    error,      \* the exception that left run, or None
    content,    \* the document handed to _metadata_encode
    encoded,    \* what _metadata_encode returned for it
    decoded,    \* the document read back from encoded["content"]
    mpc         \* position of the encode / decode exercise

vars == <<pc, tokens, signers, threshold, fa2, quorum, minter, chain, calls,
          error, content, encoded, decoded, mpc>>

deployVars == <<pc, tokens, signers, threshold, fa2, quorum, minter, chain,
                calls, error>>

metaVars == <<content, encoded, decoded, mpc>>

None == "None"

------------------------------------------------------------------------------
(* Bounds of the explored inputs.                                          *)

MaxTokens == 2      \* longest token list
MaxThreshold == 2   \* largest threshold
MaxStrLen == 1      \* longest string leaf of a generated document
MaxItems == 2       \* most items of a generated list or dict

------------------------------------------------------------------------------
(* Sequences.                                                              *)

\* The concatenation of a sequence of sequences (halving keeps the
\* evaluation shallow on long texts).
RECURSIVE Flatten(_)
Flatten(ss) ==
    CASE Len(ss) = 0 -> <<>>
      [] Len(ss) = 1 -> ss[1]
      [] OTHER -> LET h == Len(ss) \div 2
                  IN  Flatten(SubSeq(ss, 1, h)) \o Flatten(SubSeq(ss, h + 1, Len(ss)))

\* s[n:] of Python (n >= 0): the empty text when s has at most n characters.
SliceFrom(s, n) == IF Len(s) <= n THEN <<>> ELSE SubSeq(s, n + 1, Len(s))

------------------------------------------------------------------------------
(* str.encode(): UTF-8, here for code points below 0x800.                  *)

Utf8Char(c) ==
    IF c < 128 THEN <<c>>
    ELSE <<192 + (c \div 64), 128 + (c % 64)>>

str_encode(s) == Flatten([i \in 1..Len(s) |-> Utf8Char(s[i])])

(* bytes.hex(): two lower-case hexadecimal digits per byte.                *)

HexDigits == <<48, 49, 50, 51, 52, 53, 54, 55, 56, 57,
               97, 98, 99, 100, 101, 102>>     \* "0123456789abcdef"

bytes_hex(b) ==
    [i \in 1..(2 * Len(b)) |->
        IF i % 2 = 1 THEN HexDigits[(b[(i + 1) \div 2] \div 16) + 1]
                     ELSE HexDigits[(b[i \div 2] % 16) + 1]]

(* str(int): decimal digits, a leading "-" for a negative number.          *)

RECURSIVE NatDigits(_)
NatDigits(n) ==
    IF n < 10 THEN <<48 + n>> ELSE NatDigits(n \div 10) \o <<48 + (n % 10)>>

int_str(n) == IF n < 0 THEN <<45>> \o NatDigits(-n) ELSE NatDigits(n)

------------------------------------------------------------------------------
(* Documents.                                                              *)

JStr(s) == [t |-> "str", v |-> s]
JInt(n) == [t |-> "int", v |-> n]
JBool(b) == [t |-> "bool", v |-> b]
JNull == [t |-> "null", v |-> <<>>]
JList(items) == [t |-> "list", v |-> items]
JDict(pairs) == [t |-> "dict", v |-> pairs]

------------------------------------------------------------------------------
(* json.dumps(content, indent=2): the pure-Python encoder, ensure_ascii    *)
(* on, separators (",", ": "), keys in insertion order.                    *)

\* "\\uXXXX" with four lower-case hexadecimal digits.
UEscape(c) ==
    <<92, 117, HexDigits[((c \div 4096) % 16) + 1], HexDigits[((c \div 256) % 16) + 1],
      HexDigits[((c \div 16) % 16) + 1], HexDigits[(c % 16) + 1]>>

\* ESCAPE_ASCII: backslash, quote and everything outside " ".."~" is escaped.
EscapeChar(c) ==
    CASE c = 92 -> <<92, 92>>
      [] c = 34 -> <<92, 34>>
      [] c = 8  -> <<92, 98>>
      [] c = 12 -> <<92, 102>>
      [] c = 10 -> <<92, 110>>
      [] c = 13 -> <<92, 114>>
      [] c = 9  -> <<92, 116>>
      [] OTHER  -> IF c >= 32 /\ c <= 126 THEN <<c>> ELSE UEscape(c)

encode_basestring_ascii(s) ==
    <<34>> \o Flatten([i \in 1..Len(s) |-> EscapeChar(s[i])]) \o <<34>>

\* "\n" followed by two spaces per indentation level.
newline_indent(level) == <<10>> \o [i \in 1..(2 * level) |-> 32]

RECURSIVE iterencode(_, _)
iterencode(o, level) ==
    CASE o.t = "str"  -> encode_basestring_ascii(o.v)
      [] o.t = "null" -> <<110, 117, 108, 108>>                  \* null
      [] o.t = "bool" -> IF o.v THEN <<116, 114, 117, 101>>      \* true
                                ELSE <<102, 97, 108, 115, 101>>  \* false
      [] o.t = "int"  -> int_str(o.v)
      [] o.t = "list" ->
            IF o.v = <<>> THEN <<91, 93>>                        \* []
            ELSE <<91>>
                 \o Flatten([i \in 1..Len(o.v) |->
                        (IF i = 1 THEN <<>> ELSE <<44>>)
                        \o newline_indent(level + 1)
                        \o iterencode(o.v[i], level + 1)])
                 \o newline_indent(level) \o <<93>>
      [] o.t = "dict" ->
            IF o.v = <<>> THEN <<123, 125>>                      \* {}
            ELSE <<123>>
                 \o Flatten([i \in 1..Len(o.v) |->
                        (IF i = 1 THEN <<>> ELSE <<44>>)
                        \o newline_indent(level + 1)
                        \o encode_basestring_ascii(o.v[i][1])
                        \o <<58, 32>>                            \* ": "
                        \o iterencode(o.v[i][2], level + 1)])
                 \o newline_indent(level) \o <<125>>

json_dumps(o) == iterencode(o, 0)

------------------------------------------------------------------------------
(* _metadata_encode, deploy.py:26-29.  The result is a dict with the two   *)
(* keys "" and "content".                                                  *)

meta_uri == bytes_hex(str_encode(
    <<116, 101, 122, 111, 115, 45, 115, 116, 111, 114, 97, 103, 101, 58,
      99, 111, 110, 116, 101, 110, 116>>))       \* "tezos-storage:content"

\* Mutant: the document is serialized twice (json.dumps of json.dumps).
metadata_encode_double(doc) ==
    [k \in {"", "content"} |->
        IF k = "" THEN meta_uri
                  ELSE bytes_hex(str_encode(json_dumps(JStr(json_dumps(doc)))))]

\* Mutant: the two entries are put under each other's key.
metadata_encode_swapped(doc) ==
    [k \in {"", "content"} |->
        IF k = "content" THEN meta_uri
                         ELSE bytes_hex(str_encode(json_dumps(doc)))]

metadata_encode(doc) ==
    [k \in {"", "content"} |->
        IF k = "" THEN meta_uri
                  ELSE bytes_hex(str_encode(json_dumps(doc)))]

------------------------------------------------------------------------------
(* The reader's side of the round trip: bytes.fromhex, bytes.decode and    *)
(* json.loads (Python standard library).                                   *)

HexVal(c) ==
    CASE c >= 48 /\ c <= 57  -> c - 48
      [] c >= 97 /\ c <= 102 -> c - 87
      [] c >= 65 /\ c <= 70  -> c - 55
      [] OTHER -> 0

IsHex(c) == (c >= 48 /\ c <= 57) \/ (c >= 97 /\ c <= 102) \/ (c >= 65 /\ c <= 70)

bytes_fromhex(h) ==
    [i \in 1..(Len(h) \div 2) |-> 16 * HexVal(h[2 * i - 1]) + HexVal(h[2 * i])]

\* UTF-8 decoding of one- and two-byte sequences: one character per lead
\* byte (a byte outside 128..191).
bytes_decode(b) ==
    LET lead == SelectSeq([i \in 1..Len(b) |-> i],
                          LAMBDA i : b[i] < 128 \/ b[i] >= 192)
    IN  [k \in 1..Len(lead) |->
            LET i == lead[k]
            IN  IF b[i] < 128 \/ i = Len(b) THEN b[i]
                ELSE (b[i] - 192) * 64 + (b[i + 1] - 128)]

ParseFail == [ok |-> FALSE, v |-> JNull, i |-> 0]
ParseOk(val, next) == [ok |-> TRUE, v |-> val, i |-> next]

At(s, i) == IF i >= 1 /\ i <= Len(s) THEN s[i] ELSE -1

RECURSIVE skip_ws(_, _)
skip_ws(s, i) == IF At(s, i) \in {32, 9, 10, 13} THEN skip_ws(s, i + 1) ELSE i

\* BACKSLASH of json.decoder: the character after a backslash -> its meaning.
Unescape(c) ==
    CASE c = 34 -> 34 [] c = 92 -> 92 [] c = 47 -> 47 [] c = 98 -> 8
      [] c = 102 -> 12 [] c = 110 -> 10 [] c = 114 -> 13 [] c = 116 -> 9
      [] OTHER -> -1

\* py_scanstring: i is the position after the opening quote.
RECURSIVE scanstring(_, _, _)
scanstring(s, i, acc) ==
    LET c == At(s, i) IN
    CASE c = -1 -> ParseFail
      [] c = 34 -> ParseOk(acc, i + 1)
      [] c = 92 ->
            LET e == At(s, i + 1) IN
            IF e = 117
            THEN IF \A k \in 2..5 : IsHex(At(s, i + k))
                 THEN scanstring(s, i + 6,
                        Append(acc, 4096 * HexVal(s[i + 2]) + 256 * HexVal(s[i + 3])
                                    + 16 * HexVal(s[i + 4]) + HexVal(s[i + 5])))
                 ELSE ParseFail
            ELSE IF Unescape(e) # -1
                 THEN scanstring(s, i + 2, Append(acc, Unescape(e)))
                 ELSE ParseFail
      [] OTHER -> IF c < 32 THEN ParseFail ELSE scanstring(s, i + 1, Append(acc, c))

RECURSIVE scan_digits(_, _, _)
scan_digits(s, i, acc) ==
    IF At(s, i) >= 48 /\ At(s, i) <= 57
    THEN scan_digits(s, i + 1, 10 * acc + (s[i] - 48))
    ELSE ParseOk(acc, i)

\* NUMBER_RE restricted to integers: -?(0|[1-9][0-9]*)
scan_int(s, i) ==
    LET neg == At(s, i) = 45
        j == IF neg THEN i + 1 ELSE i
        r == IF At(s, j) = 48 THEN ParseOk(0, j + 1)
             ELSE IF At(s, j) >= 49 /\ At(s, j) <= 57 THEN scan_digits(s, j, 0)
             ELSE ParseFail
    IN  IF r.ok THEN ParseOk(JInt(IF neg THEN -r.v ELSE r.v), r.i) ELSE ParseFail

Matches(s, i, word) ==
    /\ i + Len(word) - 1 <= Len(s)
    /\ SubSeq(s, i, i + Len(word) - 1) = word

\* dict(pairs): a repeated key keeps its first position and takes the last value.
DictSet(pairs, k, val) ==
    IF \E n \in 1..Len(pairs) : pairs[n][1] = k
    THEN [n \in 1..Len(pairs) |-> IF pairs[n][1] = k THEN <<k, val>> ELSE pairs[n]]
    ELSE Append(pairs, <<k, val>>)

RECURSIVE scan_once(_, _), JSONArray(_, _, _), JSONObject(_, _, _)

scan_once(s, i) ==
    LET c == At(s, i) IN
    CASE c = 34 -> LET r == scanstring(s, i + 1, <<>>)
                   IN  IF r.ok THEN ParseOk(JStr(r.v), r.i) ELSE ParseFail
      [] c = 123 -> LET j == skip_ws(s, i + 1)
                    IN  IF At(s, j) = 125 THEN ParseOk(JDict(<<>>), j + 1)
                        ELSE JSONObject(s, j, <<>>)
      [] c = 91 -> LET j == skip_ws(s, i + 1)
                   IN  IF At(s, j) = 93 THEN ParseOk(JList(<<>>), j + 1)
                       ELSE JSONArray(s, j, <<>>)
      [] c = 110 /\ Matches(s, i, <<110, 117, 108, 108>>) -> ParseOk(JNull, i + 4)
      [] c = 116 /\ Matches(s, i, <<116, 114, 117, 101>>) -> ParseOk(JBool(TRUE), i + 4)
      [] c = 102 /\ Matches(s, i, <<102, 97, 108, 115, 101>>) -> ParseOk(JBool(FALSE), i + 5)
      [] OTHER -> scan_int(s, i)

\* i is the position of the next item.
JSONArray(s, i, acc) ==
    LET r == scan_once(s, i) IN
    IF ~r.ok THEN ParseFail
    ELSE LET j == skip_ws(s, r.i)
             items == Append(acc, r.v)
         IN  CASE At(s, j) = 93 -> ParseOk(JList(items), j + 1)
               [] At(s, j) = 44 -> JSONArray(s, skip_ws(s, j + 1), items)
               [] OTHER -> ParseFail

\* i is the position of the next key's opening quote.
JSONObject(s, i, acc) ==
    IF At(s, i) # 34 THEN ParseFail
    ELSE LET k == scanstring(s, i + 1, <<>>) IN
         IF ~k.ok THEN ParseFail
         ELSE LET j == skip_ws(s, k.i) IN
              IF At(s, j) # 58 THEN ParseFail
              ELSE LET r == scan_once(s, skip_ws(s, j + 1)) IN
                   IF ~r.ok THEN ParseFail
                   ELSE LET e == skip_ws(s, r.i)
                            pairs == DictSet(acc, k.v, r.v)
                        IN  CASE At(s, e) = 125 -> ParseOk(JDict(pairs), e + 1)
                              [] At(s, e) = 44 -> JSONObject(s, skip_ws(s, e + 1), pairs)
                              [] OTHER -> ParseFail

\* What stands for json.loads raising JSONDecodeError.
JSONDecodeError == [t |-> "JSONDecodeError", v |-> <<>>]

\* json.loads: one value, then nothing but whitespace.
json_loads(s) ==
    LET r == scan_once(s, skip_ws(s, 1)) IN
    IF r.ok /\ skip_ws(s, r.i) = Len(s) + 1 THEN r.v ELSE JSONDecodeError

------------------------------------------------------------------------------
(* The documents of the three contracts.                                   *)

s_name == <<110, 97, 109, 101>>                               \* "name"
s_homepage == <<104, 111, 109, 101, 112, 97, 103, 101>>       \* "homepage"
s_license == <<108, 105, 99, 101, 110, 115, 101>>             \* "license"
s_MIT == <<77, 73, 84>>                                       \* "MIT"
s_url == <<104, 116, 116, 112, 115, 58, 47, 47, 103, 105, 116, 104, 117, 98,
           46, 99, 111, 109, 47, 98, 101, 110, 100, 101, 114, 45, 108, 97, 98,
           115, 47, 119, 114, 97, 112, 45, 116, 122, 45, 99, 111, 110, 116,
           114, 97, 99, 116, 115>>
           \* "https://github.com/bender-labs/wrap-tz-contracts"

\* LigoView.compile(name, return type, description): the view descriptor
\* put under "views"; its compiled code is the compiler's and is left out.
views_compile(name, description) ==
    JDict(<< <<s_name, JStr(name)>>,
             <<<<100, 101, 115, 99, 114, 105, 112, 116, 105, 111, 110>>,  \* "description"
               JStr(description)>> >>)

s_is_operator_desc ==
    <<105, 115, 95, 111, 112, 101, 114, 97, 116, 111, 114, 32, 97, 115, 32,
      100, 101, 102, 105, 110, 101, 100, 32, 105, 110, 32, 116, 122, 105, 112,
      45, 49, 50>>                     \* "is_operator as defined in tzip-12"

get_balance == views_compile(
    <<103, 101, 116, 95, 98, 97, 108, 97, 110, 99, 101>>,      \* "get_balance"
    <<103, 101, 116, 95, 98, 97, 108, 97, 110, 99, 101, 32, 97, 115, 32, 100,
      101, 102, 105, 110, 101, 100, 32, 105, 110, 32, 116, 122, 105, 112, 45,
      49, 50>>)                        \* "get_balance as defined in tzip-12"

total_supply == views_compile(
    <<116, 111, 116, 97, 108, 95, 115, 117, 112, 112, 108, 121>>,  \* "total_supply"
    <<103, 101, 116, 95, 116, 111, 116, 97, 108, 32, 115, 117, 112, 112, 108,
      121, 32, 97, 115, 32, 100, 101, 102, 105, 110, 101, 100, 32, 105, 110,
      32, 116, 122, 105, 112, 45, 49, 50>>)
                                  \* "get_total supply as defined in tzip-12"

is_operator == views_compile(
    <<105, 115, 95, 111, 112, 101, 114, 97, 116, 111, 114>>,   \* "is_operator"
    s_is_operator_desc)

token_metadata_view == views_compile(
    <<116, 111, 107, 101, 110, 95, 109, 101, 116, 97, 100, 97, 116, 97>>,  \* "token_metadata"
    s_is_operator_desc)

\* deploy.py:63-80
fa2_meta_doc ==
    JDict(<<
      <<<<105, 110, 116, 101, 114, 102, 97, 99, 101, 115>>,    \* "interfaces"
        JList(<<JStr(<<84, 90, 73, 80, 45, 49, 50>>),          \* "TZIP-12"
                JStr(<<84, 90, 73, 80, 45, 49, 54>>)>>)>>,     \* "TZIP-16"
      <<s_name, JStr(<<87, 114, 97, 112, 32, 112, 114, 111, 116, 111, 99, 111,
                       108, 32, 70, 65, 50, 32, 116, 111, 107, 101, 110,
                       115>>)>>,                  \* "Wrap protocol FA2 tokens"
      <<s_homepage, JStr(s_url)>>,
      <<s_license, JDict(<< <<s_name, JStr(s_MIT)>> >>)>>,
      <<<<112, 101, 114, 109, 105, 115, 115, 105, 111, 110, 115>>,  \* "permissions"
        JDict(<<
          <<<<111, 112, 101, 114, 97, 116, 111, 114>>,         \* "operator"
            JStr(<<111, 119, 110, 101, 114, 45, 111, 114, 45, 111, 112, 101,
                   114, 97, 116, 111, 114, 45, 116, 114, 97, 110, 115, 102,
                   101, 114>>)>>,               \* "owner-or-operator-transfer"
          <<<<114, 101, 99, 101, 105, 118, 101, 114>>,         \* "receiver"
            JStr(<<111, 119, 110, 101, 114, 45, 110, 111, 45, 104, 111, 111,
                   107>>)>>,                                   \* "owner-no-hook"
          <<<<115, 101, 110, 100, 101, 114>>,                  \* "sender"
            JStr(<<111, 119, 110, 101, 114, 45, 110, 111, 45, 104, 111, 111,
                   107>>)>>,                                   \* "owner-no-hook"
          <<<<99, 117, 115, 116, 111, 109>>,                   \* "custom"
            JDict(<< <<<<116, 97, 103>>,                       \* "tag"
                       JStr(<<80, 65, 85, 83, 65, 66, 76, 69, 95, 84, 79, 75,
                              69, 78, 83>>)>> >>)>>            \* "PAUSABLE_TOKENS"
        >>)>>,
      <<<<118, 105, 101, 119, 115>>,                           \* "views"
        JList(<<get_balance, total_supply, is_operator, token_metadata_view>>)>>
    >>)

\* deploy.py:113-117
minter_meta_doc ==
    JDict(<<
      <<s_name, JStr(<<87, 114, 97, 112, 32, 112, 114, 111, 116, 111, 99, 111,
                       108, 32, 109, 105, 110, 116, 101, 114, 32, 99, 111,
                       110, 116, 114, 97, 99, 116>>)>>,
                                             \* "Wrap protocol minter contract"
      <<s_homepage, JStr(s_url)>>,
      <<s_license, JDict(<< <<s_name, JStr(s_MIT)>> >>)>>
    >>)

\* deploy.py:142-146
quorum_meta_doc ==
    JDict(<<
      <<s_name, JStr(<<87, 114, 97, 112, 32, 112, 114, 111, 116, 111, 99, 111,
                       108, 32, 113, 117, 111, 114, 117, 109, 32, 99, 111,
                       110, 116, 114, 97, 99, 116>>)>>,
                                             \* "Wrap protocol quorum contract"
      <<s_homepage, JStr(s_url)>>,
      <<s_license, JDict(<< <<s_name, JStr(s_MIT)>> >>)>>
    >>)

fa2_meta == metadata_encode(fa2_meta_doc)
minter_meta == metadata_encode(minter_meta_doc)
quorum_meta == metadata_encode(quorum_meta_doc)

------------------------------------------------------------------------------
(* Storage builders.  A Python dict is a function; the empty dict is the   *)
(* empty function.                                                         *)

EmptyDict == <<>>

\* self.utils.client.key.public_key_hash()
public_key_hash == "tz1caller"

str_hex(s) == bytes_hex(str_encode(s))

\* Mutant: token ids counted from 1.
fa2_token_metadata_one_based(toks) ==
    [k \in 0..(Len(toks) - 1) |->
        LET v == toks[k + 1] IN
        [token_id |-> k + 1,
         extras |-> [decimals     |-> str_hex(int_str(v.decimals)),
                     eth_contract |-> str_hex(v.eth_contract),
                     eth_symbol   |-> str_hex(v.eth_symbol),
                     name         |-> str_hex(v.name),
                     symbol       |-> str_hex(v.symbol)]]]

\* deploy.py:82-90
fa2_token_metadata(toks) ==
    [k \in 0..(Len(toks) - 1) |->
        LET v == toks[k + 1] IN
        [token_id |-> k,
         extras |-> [decimals     |-> str_hex(int_str(v.decimals)),
                     eth_contract |-> str_hex(v.eth_contract),
                     eth_symbol   |-> str_hex(v.eth_symbol),
                     name         |-> str_hex(v.name),
                     symbol       |-> str_hex(v.symbol)]]]

\* deploy.py:91
fa2_supply(toks) == [k \in 0..(Len(toks) - 1) |-> 0]

\* deploy.py:92-105
fa2_storage(toks) ==
    [admin    |-> [admin |-> public_key_hash,
                   pending_admin |-> None,
                   paused |-> EmptyDict],
     assets   |-> [ledger |-> EmptyDict,
                   operators |-> EmptyDict,
                   token_metadata |-> fa2_token_metadata(toks),
                   token_total_supply |-> fa2_supply(toks)],
     metadata |-> fa2_meta]

\* dict(pairs) over the first n pairs: a later pair with the same key
\* replaces the earlier one.
RECURSIVE dict_of(_, _)
dict_of(pairs, n) ==
    IF n = 0 THEN EmptyDict
    ELSE LET d == dict_of(pairs, n - 1)
         IN  [x \in (DOMAIN d) \cup {pairs[n][1]} |->
                 IF x = pairs[n][1] THEN pairs[n][2] ELSE d[x]]

\* Mutant: the two characters are removed only when they are "0x".
minter_tokens_0x_only(toks, fa2_contract) ==
    dict_of([i \in 1..Len(toks) |->
                <<IF Len(toks[i].eth_contract) >= 2
                     /\ SubSeq(toks[i].eth_contract, 1, 2) = <<48, 120>>
                  THEN SliceFrom(toks[i].eth_contract, 2)
                  ELSE toks[i].eth_contract,
                  <<fa2_contract, i - 1>>>>],
            Len(toks))

\* Mutant: positions counted from 1.
minter_tokens_one_based(toks, fa2_contract) ==
    dict_of([i \in 1..Len(toks) |->
                <<SliceFrom(toks[i].eth_contract, 2), <<fa2_contract, i>>>>],
            Len(toks))

\* deploy.py:112
minter_tokens(toks, fa2_contract) ==
    dict_of([i \in 1..Len(toks) |->
                <<SliceFrom(toks[i].eth_contract, 2), <<fa2_contract, i - 1>>>>],
            Len(toks))

\* Mutant: the two addresses taken in each other's place.
minter_storage_swapped(quorum_contract, toks, fa2_contract) ==
    [admin      |-> [administrator |-> public_key_hash,
                     signer |-> fa2_contract,
                     paused |-> FALSE],
     assets     |-> [tokens |-> minter_tokens(toks, quorum_contract),
                     mints |-> EmptyDict],
     governance |-> [contract |-> public_key_hash,
                     fees_contract |-> public_key_hash,
                     wrapping_fees |-> 100,
                     unwrapping_fees |-> 100],
     metadata   |-> minter_meta]

\* deploy.py:118-135
minter_storage(quorum_contract, toks, fa2_contract) ==
    [admin      |-> [administrator |-> public_key_hash,
                     signer |-> quorum_contract,
                     paused |-> FALSE],
     assets     |-> [tokens |-> minter_tokens(toks, fa2_contract),
                     mints |-> EmptyDict],
     governance |-> [contract |-> public_key_hash,
                     fees_contract |-> public_key_hash,
                     wrapping_fees |-> 100,
                     unwrapping_fees |-> 100],
     metadata   |-> minter_meta]

\* Mutant: the threshold is cut down to the number of signers.
quorum_storage_clamped(sgn, thr) ==
    [admin     |-> public_key_hash,
     threshold |-> IF thr > Cardinality(DOMAIN sgn)
                   THEN Cardinality(DOMAIN sgn) ELSE thr,
     signers   |-> sgn,
     metadata  |-> quorum_meta]

\* deploy.py:148-153
quorum_storage(sgn, thr) ==
    [admin     |-> public_key_hash,
     threshold |-> thr,
     signers   |-> sgn,
     metadata  |-> quorum_meta]

------------------------------------------------------------------------------
(* Inputs of Deploy.run.                                                   *)

TokenTypes ==
    { [eth_contract |-> <<48, 120, 48, 49>>,                   \* "0x01"
       eth_symbol   |-> <<69, 84, 72>>,                        \* "ETH"
       symbol       |-> <<87, 69, 84, 72>>,                    \* "WETH"
       name         |-> <<87, 114, 97, 112, 112, 101, 100, 32, 69, 116, 104,
                          101, 114>>,                          \* "Wrapped Ether"
       decimals     |-> 18],
      [eth_contract |-> <<49, 120, 48, 49>>,                   \* "1x01"
       eth_symbol   |-> <<68, 65, 73>>,                        \* "DAI"
       symbol       |-> <<87, 68, 65, 73>>,                    \* "WDAI"
       name         |-> <<68, 97, 239>>,                       \* "Dai", i with diaeresis
       decimals     |-> 6],
      [eth_contract |-> <<120>>,                               \* "x"
       eth_symbol   |-> <<88>>,                                \* "X"
       symbol       |-> <<87, 88>>,                            \* "WX"
       name         |-> <<83, 104, 111, 114, 116>>,            \* "Short"
       decimals     |-> 0] }

TokenLists == UNION {[1..n -> TokenTypes] : n \in 0..MaxTokens}

SignerNames == {"a", "b"}
SignerKeys == {"pkhA", "pkhB"}
SignerMaps == UNION {[d -> SignerKeys] : d \in SUBSET SignerNames}

Thresholds == 1..MaxThreshold

\* The addresses an origination can return.
Addresses == {"KT1A", "KT1B", "KT1C", "KT1D"}

------------------------------------------------------------------------------
(* Deploy.run, deploy.py:41-47.                                            *)

\* The steps of run in the order of lines 42-46.
StepOrder == <<"fa2", "quorum", "minter", "set_admin", "confirm_admin">>

\* Mutant: the quorum is originated after the minter.
returns_reordered(step) ==
    CASE step = "fa2"           -> "minter"
      [] step = "minter"        -> "quorum"
      [] step = "quorum"        -> "set_admin"
      [] step = "set_admin"     -> "confirm_admin"
      [] step = "confirm_admin" -> "done"

\* Where run continues when the call of `step` returns.
returns(step) ==
    CASE step = "fa2"           -> "quorum"
      [] step = "quorum"        -> "minter"
      [] step = "minter"        -> "set_admin"
      [] step = "set_admin"     -> "confirm_admin"
      [] step = "confirm_admin" -> "done"

\* Mutant: the exception is caught and run goes on with the next step.
Raise_swallowed(step, e) ==
    /\ pc' = returns(step)
    /\ error' = e

\* An exception raised inside `step`: nothing in run or in the step's
\* method catches it, so it leaves run.
Raise(step, e) ==
    /\ pc' = "failed"
    /\ error' = e

\* PtzUtils.originate(code, storage): the network either refuses the
\* operation or creates the contract under an address not in use.
originate_results == {None} \cup (Addresses \ DOMAIN chain)

\* One step that builds `storage` and originates it; `r` is what
\* originate does.  The step is logged: whether its argument was built,
\* the argument, whether the step succeeded and the address it returned.
Originate(step, storage, r) ==
    /\ calls' = Append(calls, [step |-> step, built |-> TRUE, arg |-> storage,
                               ok |-> r # None, ret |-> r])
    /\ IF r = None
       THEN /\ Raise(step, "OriginationError")
            /\ chain' = chain
       ELSE /\ pc' = returns(step)
            /\ error' = error
            /\ chain' = [a \in (DOMAIN chain) \cup {r} |->
                            IF a = r THEN storage ELSE chain[a]]

\* line 42 and Deploy.fa2, lines 55-108
Fa2 ==
    /\ pc = "fa2"
    /\ \/ \* a view does not compile (lines 57-62): nothing is originated
          /\ calls' = Append(calls, [step |-> "fa2", built |-> FALSE,
                                     arg |-> None, ok |-> FALSE, ret |-> None])
          /\ Raise("fa2", "CompilationError")
          /\ UNCHANGED <<fa2, chain>>
       \/ \E r \in originate_results :
             /\ Originate("fa2", fa2_storage(tokens), r)
             /\ fa2' = r
    /\ UNCHANGED <<tokens, signers, threshold, quorum, minter, metaVars>>

\* line 43 and Deploy._deploy_quorum, lines 141-156
DeployQuorum ==
    /\ pc = "quorum"
    /\ \E r \in originate_results :
          /\ Originate("quorum", quorum_storage(signers, threshold), r)
          /\ quorum' = r
    /\ UNCHANGED <<tokens, signers, threshold, fa2, minter, metaVars>>

\* line 44 and Deploy._deploy_minter, lines 110-139
DeployMinter ==
    /\ pc = "minter"
    /\ \E r \in originate_results :
          /\ Originate("minter", minter_storage(quorum, tokens, fa2), r)
          /\ minter' = r
    /\ UNCHANGED <<tokens, signers, threshold, fa2, quorum, metaVars>>

\* What class Token defines (token.py:6-49).
TokenMethods == {"__init__", "originate", "mint"}

\* line 45 and Deploy._set_fa2_admin, lines 52-53:
\*     Token(self.utils).set_admin(fa2, minter)
\* Token has no attribute set_admin, so the attribute lookup raises
\* AttributeError before anything is sent to the FA2 contract.  The
\* exception leaves run, and line 46 (_confirm_admin) and line 47 are
\* never reached.
SetFa2Admin ==
    /\ pc = "set_admin"
    /\ "set_admin" \notin TokenMethods
    /\ calls' = Append(calls, [step |-> "set_admin", built |-> TRUE,
                               arg |-> [contract |-> fa2, admin |-> minter],
                               ok |-> FALSE, ret |-> None])
    /\ Raise("set_admin", "AttributeError")
    /\ UNCHANGED <<tokens, signers, threshold, fa2, quorum, minter, chain,
                   metaVars>>

MetaIdle ==
    /\ content = JNull
    /\ encoded = None
    /\ decoded = None
    /\ mpc = "idle"

Init ==
    /\ pc = "fa2"
    /\ tokens \in TokenLists
    /\ signers \in SignerMaps
    /\ threshold \in Thresholds
    /\ fa2 = None
    /\ quorum = None
    /\ minter = None
    /\ chain = EmptyDict
    /\ calls = <<>>
    /\ error = None
    /\ MetaIdle

Next == Fa2 \/ DeployQuorum \/ DeployMinter \/ SetFa2Admin

Spec == Init /\ [][Next]_vars

------------------------------------------------------------------------------
(* _metadata_encode on generated documents, and the reader's round trip.   *)

Chars == {97, 34, 92, 10, 233}     \* a, quote, backslash, newline, e acute
Strings == UNION {[1..n -> Chars] : n \in 0..MaxStrLen}
Atoms == {JInt(0), JInt(-12), JInt(705), JBool(TRUE), JBool(FALSE), JNull}
Leaves == Atoms \cup {JStr(x) : x \in Strings}

Items == {JInt(-12), JBool(TRUE), JNull, JStr(<<92, 233>>)}
Keys == {<<>>, <<97>>, <<34>>}

ItemLists == UNION {[1..n -> Items] : n \in 0..MaxItems}
KeyLists ==
    {ks \in UNION {[1..n -> Keys] : n \in 0..MaxItems} :
        \A i, j \in 1..Len(ks) : i # j => ks[i] # ks[j]}

Lists == {JList(x) : x \in ItemLists}
Dicts ==
    {JDict([i \in 1..Len(ks) |-> <<ks[i], vs[i]>>]) :
        <<ks, vs>> \in {p \in KeyLists \X ItemLists : Len(p[1]) = Len(p[2])}}

Nested ==
    {JDict(<< <<<<97>>, c>> >>) : c \in Lists \cup Dicts}
    \cup {JList(<<c, JNull>>) : c \in Lists \cup Dicts}

\* A value json.dumps cannot serialize (a set, bytes, an object).
JOther == [t |-> "other", v |-> <<>>]

Unserializable ==
    {JOther, JList(<<JInt(0), JOther>>), JDict(<< <<<<97>>, JOther>> >>)}

Documents == Leaves \cup Lists \cup Dicts \cup Nested \cup Unserializable

RECURSIVE Serializable(_)
Serializable(o) ==
    CASE o.t \in {"str", "int", "bool", "null"} -> TRUE
      [] o.t = "list" -> \A i \in 1..Len(o.v) : Serializable(o.v[i])
      [] o.t = "dict" -> \A i \in 1..Len(o.v) : Serializable(o.v[i][2])
      [] OTHER -> FALSE

\* _metadata_encode(content); json.dumps raises TypeError on a value it
\* cannot serialize.
Encode ==
    /\ mpc = "encode"
    /\ IF Serializable(content)
       THEN /\ encoded' = metadata_encode(content)
            /\ mpc' = "decode"
       ELSE /\ encoded' = None
            /\ mpc' = "raised"
    /\ UNCHANGED <<content, decoded, deployVars>>

\* json.loads(bytes.fromhex(encoded["content"]).decode())
Decode ==
    /\ mpc = "decode"
    /\ decoded' = json_loads(bytes_decode(bytes_fromhex(encoded["content"])))
    /\ mpc' = "done"
    /\ UNCHANGED <<content, encoded, deployVars>>

DeployIdle ==
    /\ pc = "idle"
    /\ tokens = <<>>
    /\ signers = EmptyDict
    /\ threshold = 1
    /\ fa2 = None
    /\ quorum = None
    /\ minter = None
    /\ chain = EmptyDict
    /\ calls = <<>>
    /\ error = None

InitMeta ==
    /\ content \in Documents
    /\ encoded = None
    /\ decoded = None
    /\ mpc = "encode"
    /\ DeployIdle

NextMeta == Encode \/ Decode

SpecMeta == InitMeta /\ [][NextMeta]_vars

------------------------------------------------------------------------------
(* Properties.                                                             *)

\* Reading a hexadecimal field back as text.
HexText(h) == bytes_decode(bytes_fromhex(h))

\* s without its first two characters, position by position.
Drop2(s) == [j \in 1..(IF Len(s) > 2 THEN Len(s) - 2 ELSE 0) |-> s[j + 2]]

\* The log entries of one step.
CallsOf(step) == {i \in 1..Len(calls) : calls[i].step = step}

\* C1: the steps are attempted in the order originate FA2, originate quorum,
\* originate minter, FA2 admin-change, minter admin-confirmation; a step is
\* attempted only after every earlier step has succeeded, no step is
\* attempted twice, and the step to attempt next is always the one that
\* follows the steps attempted so far.
C1_FixedOrder ==
    LET order == <<"fa2", "quorum", "minter", "set_admin", "confirm_admin">> IN
    /\ Len(calls) <= 5
    /\ \A i \in 1..Len(calls) : calls[i].step = order[i]
    /\ \A i \in 1..(Len(calls) - 1) : calls[i].ok
    /\ pc \notin {"failed", "done"} => pc = order[Len(calls) + 1]

C1_Witness ==
    /\ Len(calls) = 4
    /\ calls[1].ok /\ calls[2].ok /\ calls[3].ok
    /\ calls[4].step = "set_admin"

\* C2: a run in which no collaborator call fails ends in AdminConfirmed with
\* three pairwise distinct addresses, and the FA2 contract's administrator
\* is the minter address.
C2_AdminHandedOver ==
    (pc \in {"done", "failed"} /\ error \notin {"OriginationError", "CompilationError"})
    => /\ pc = "done"
       /\ None \notin {fa2, quorum, minter}
       /\ Cardinality({fa2, quorum, minter}) = 3
       /\ chain[fa2].admin.admin = minter

\* C3: a failing step ends the run: it is the last step attempted, no step
\* is attempted twice, and what the earlier steps originated stays on chain
\* and in run's variables.  After a failure of the minter origination fa2
\* and quorum are set, minter is not, and neither the admin-change nor the
\* admin-confirmation has been attempted.
C3_ErrorPropagates ==
    LET n == Len(calls)
        var == <<fa2, quorum, minter>>
    IN
    /\ \A i \in 1..n : ~calls[i].ok => (i = n /\ pc = "failed" /\ error # None)
    /\ pc = "failed" => (n >= 1 /\ ~calls[n].ok)
    /\ \A i, j \in 1..n : calls[i].step = calls[j].step => i = j
    /\ \A i \in 1..3 :
          IF i <= n /\ calls[i].ok
          THEN /\ var[i] = calls[i].ret
               /\ var[i] \in DOMAIN chain
               /\ chain[var[i]] = calls[i].arg
          ELSE var[i] = None
    /\ (n = 3 /\ ~calls[3].ok)
       => /\ fa2 # None /\ quorum # None /\ minter = None
          /\ DOMAIN chain = {fa2, quorum}
          /\ CallsOf("set_admin") = {} /\ CallsOf("confirm_admin") = {}

C3_Witness ==
    /\ pc = "failed"
    /\ Len(calls) = 3
    /\ calls[3].step = "minter" /\ ~calls[3].ok
    /\ error = "OriginationError"

\* C4: the FA2 storage has one token_metadata entry per position of the
\* token list, keyed 0..len-1, with token_id equal to its key and the
\* extras of the spec at that position; token_total_supply maps the same
\* keys to 0; ledger and operators are empty and pending_admin is none.
C4_Fa2Storage ==
    \A i \in CallsOf("fa2") : calls[i].built =>
        LET st == calls[i].arg
            tm == st.assets.token_metadata
            ids == 0..(Len(tokens) - 1)
        IN
        /\ DOMAIN tm = ids
        /\ \A k \in ids :
              /\ tm[k].token_id = k
              /\ HexText(tm[k].extras.eth_contract) = tokens[k + 1].eth_contract
              /\ HexText(tm[k].extras.eth_symbol) = tokens[k + 1].eth_symbol
              /\ HexText(tm[k].extras.symbol) = tokens[k + 1].symbol
              /\ HexText(tm[k].extras.name) = tokens[k + 1].name
              /\ scan_int(HexText(tm[k].extras.decimals), 1).v
                    = JInt(tokens[k + 1].decimals)
        /\ DOMAIN st.assets.token_total_supply = ids
        /\ \A k \in ids : st.assets.token_total_supply[k] = 0
        /\ st.assets.ledger = <<>>
        /\ st.assets.operators = <<>>
        /\ st.admin.pending_admin = "None"

C4_Witness ==
    /\ Len(tokens) = 2
    /\ tokens[1] = tokens[2]
    /\ Len(calls) >= 1
    /\ calls[1].ok
    /\ chain[fa2].assets.token_metadata[1].token_id = 1

\* C5 as claimed: every spec's key (its ethContract without the first two
\* characters) is in the minter's tokens mapping and maps to the pair of
\* the FA2 address and the spec's own position; mints is empty.
C5_OwnPosition ==
    \A i \in CallsOf("minter") :
        LET tk == calls[i].arg.assets.tokens IN
        /\ \A j \in 1..Len(tokens) :
              /\ Drop2(tokens[j].eth_contract) \in DOMAIN tk
              /\ tk[Drop2(tokens[j].eth_contract)] = <<calls[1].ret, j - 1>>
        /\ calls[i].arg.assets.mints = <<>>

\* C5 amended: every spec's key is in the mapping, the removal of the two
\* characters does not depend on what they are, and the key maps to the
\* pair of the FA2 address and the position of the last spec of the list
\* with that key (the spec's own position when no later spec shares its
\* key); mints is empty.
C5_LastPosition ==
    \A i \in CallsOf("minter") :
        LET tk == calls[i].arg.assets.tokens
            last(key) == CHOOSE j \in 1..Len(tokens) :
                            /\ Drop2(tokens[j].eth_contract) = key
                            /\ \A m \in (j + 1)..Len(tokens) :
                                  Drop2(tokens[m].eth_contract) # key
        IN
        /\ \A j \in 1..Len(tokens) :
              /\ Drop2(tokens[j].eth_contract) \in DOMAIN tk
              /\ tk[Drop2(tokens[j].eth_contract)]
                    = <<calls[1].ret, last(Drop2(tokens[j].eth_contract)) - 1>>
        /\ calls[i].arg.assets.mints = <<>>

\* Two specs "0x01" and "1x01": one key "01", which maps to position 1.
C5_Witness ==
    /\ Len(tokens) = 2
    /\ tokens[1].eth_contract = <<48, 120, 48, 49>>
    /\ tokens[2].eth_contract = <<49, 120, 48, 49>>
    /\ minter # None
    /\ chain[minter].assets.tokens[<<48, 49>>] = <<fa2, 1>>

\* C6: the quorum storage has the threshold and the signers run was given
\* and the caller's key hash as admin, and the builder itself rejects
\* nothing: the quorum step always reaches the origination, and fails only
\* when the origination does.
C6_QuorumStorage ==
    /\ \A i \in CallsOf("quorum") :
          /\ calls[i].built
          /\ calls[i].arg.threshold = threshold
          /\ calls[i].arg.signers = signers
          /\ calls[i].arg.admin = "tz1caller"
          /\ ~calls[i].ok => error = "OriginationError"
    /\ pc \in {"minter", "set_admin"} => CallsOf("quorum") # {}

\* An empty signer mapping with a threshold above the number of signers.
C6_Witness ==
    /\ quorum # None
    /\ signers = <<>>
    /\ threshold > 1
    /\ chain[quorum].threshold = threshold
    /\ chain[quorum].signers = <<>>

\* C7: the document read back from the content entry is the document that
\* was encoded.
C7_RoundTrip == mpc = "done" => decoded = content

C7_Witness ==
    /\ mpc = "done"
    /\ content.t = "dict"
    /\ Len(content.v) = 2
    /\ content.v[2][2] = JStr(<<92, 233>>)
    /\ decoded = content

\* C8: whenever _metadata_encode returns, the result has exactly the keys
\* "" and "content", and "" holds the hexadecimal text of
\* "tezos-storage:content"; so does the metadata field of the three
\* storages.
C8_UriEntry ==
    LET uri == <<55, 52, 54, 53, 55, 97, 54, 102, 55, 51, 50, 100, 55, 51, 55,
                 52, 54, 102, 55, 50, 54, 49, 54, 55, 54, 53, 51, 97, 54, 51,
                 54, 102, 54, 101, 55, 52, 54, 53, 54, 101, 55, 52>>
                 \* "74657a6f732d73746f726167653a636f6e74656e74"
    IN
    /\ mpc \in {"decode", "done"}
       => (DOMAIN encoded = {"", "content"} /\ encoded[""] = uri)
    /\ \A m \in {fa2_storage(tokens).metadata,
                 quorum_storage(signers, threshold).metadata,
                 minter_storage(quorum, tokens, fa2).metadata} :
          DOMAIN m = {"", "content"} /\ m[""] = uri

C8_Witness ==
    /\ mpc = "decode"
    /\ content.t = "list"
    /\ Len(content.v) = 2
    /\ DOMAIN encoded = {"", "content"}

\* What the steps are handed, against what the earlier steps returned.
C9_Threaded ==
    /\ \A i \in CallsOf("minter") :
          /\ calls[2].ok
          /\ calls[i].arg.admin.signer = calls[2].ret
          /\ \A k \in DOMAIN calls[i].arg.assets.tokens :
                calls[i].arg.assets.tokens[k][1] = calls[1].ret
    /\ \A i \in CallsOf("set_admin") :
          calls[i].arg = [contract |-> calls[1].ret, admin |-> calls[3].ret]

\* A step leaves every address variable that is set as it is.
C9_NotReassigned ==
    /\ fa2 # None => fa2' = fa2
    /\ quorum # None => quorum' = quorum
    /\ minter # None => minter' = minter

\* C9: the minter storage's signer is the address the quorum origination
\* returned, every tokens entry of the minter carries the address the FA2
\* origination returned, the admin-change is addressed to that FA2 address
\* and nominates the address the minter origination returned, and an
\* address variable that is set is never changed.
C9_AddressesThreaded == [](C9_Threaded) /\ [][C9_NotReassigned]_vars

C9_Witness ==
    /\ Len(calls) = 4
    /\ Len(tokens) = 2
    /\ calls[4].arg = [contract |-> fa2, admin |-> minter]
    /\ chain[minter].admin.signer = quorum

\* C10 as claimed: the minter's tokens mapping has as many entries as the
\* token list, and the indices it refers to are exactly the FA2 token ids,
\* each referred to by one key.
C10_OneEntryPerSpec ==
    \A i \in CallsOf("minter") :
        LET tk == calls[i].arg.assets.tokens
            ids == DOMAIN calls[1].arg.assets.token_metadata
        IN
        /\ Cardinality(DOMAIN tk) = Len(tokens)
        /\ {tk[k][2] : k \in DOMAIN tk} = ids
        /\ \A k1, k2 \in DOMAIN tk : tk[k1][2] = tk[k2][2] => k1 = k2

\* C10 amended: the minter's tokens mapping has one entry per distinct key
\* of the list; every index it refers to is an FA2 token id and is referred
\* to by one key; and when the keys of the list are pairwise distinct it
\* has as many entries as the list and refers to exactly the FA2 token ids.
C10_OneEntryPerKey ==
    \A i \in CallsOf("minter") :
        LET tk == calls[i].arg.assets.tokens
            ids == DOMAIN calls[1].arg.assets.token_metadata
            keys == {Drop2(tokens[j].eth_contract) : j \in 1..Len(tokens)}
        IN
        /\ DOMAIN tk = keys
        /\ \A k \in DOMAIN tk : tk[k][2] \in ids
        /\ \A k1, k2 \in DOMAIN tk : tk[k1][2] = tk[k2][2] => k1 = k2
        /\ Cardinality(keys) = Len(tokens)
           => /\ Cardinality(DOMAIN tk) = Len(tokens)
              /\ {tk[k][2] : k \in DOMAIN tk} = ids

\* Two specs with the keys "01" and "": two entries, for the ids 0 and 1.
C10_Witness ==
    /\ Len(tokens) = 2
    /\ tokens[1].eth_contract = <<48, 120, 48, 49>>
    /\ tokens[2].eth_contract = <<120>>
    /\ minter # None
    /\ DOMAIN chain[minter].assets.tokens = {<<48, 49>>, <<>>}
    /\ DOMAIN chain[fa2].assets.token_metadata = {0, 1}

====
